---- MODULE Spec2Model ----
(***************************************************************************)
(* A model of dukascopy-data: the downloader (src/downloader.py), which    *)
(* mirrors one .bi5 artifact per (instrument, date, hour) under a thread   *)
(* pool, and the converter (src/convert.py), which decodes an artifact     *)
(* into CSV rows.                                                          *)
(*                                                                         *)
(* Three specifications share the module's variables:                      *)
(*   Spec       download_one_hour, statement by statement, for a few       *)
(*              calls against a local file system and a remote archive;    *)
(*   SchedSpec  download_dukascopy_ticks: enumeration, submission to the   *)
(*              ThreadPoolExecutor, the workers and the as_completed loop; *)
(*   ConvSpec   bi5_to_csv.                                                *)
(* Each specification holds the other components' variables at their      *)
(* initial values.                                                         *)
(***************************************************************************)
EXTENDS Integers, Sequences, FiniteSets, TLC

VARIABLES
    \* ---- download_one_hour (Spec) ----
    fs,          \* the local file system: filepath -> Absent or the file's bytes
    remote,      \* the remote archive: filepath's unit -> Absent or the artifact's bytes
    pc,          \* where the current call of download_one_hour stands
    unit,        \* <<year, month, day, hour>> of the current call
    local_size,  \* the local variable local_size (line 28 / line 54)
    new_data,    \* the local variable new_data (line 49)
    nwritten,    \* bytes of new_data that f.write has put in the file so far
    result,      \* the string the call returns
    n_head,      \* requests.head calls issued by the current call
    n_get,       \* requests.get calls issued by the current call
    head_resp,   \* what requests.head did in the current call (NoResp before it)
    get_resp,    \* what requests.get did in the current call (NoResp before it)
    io_error,    \* open or f.write raised OSError in the current call
    pre,         \* the file system as the current call found it
    last,        \* the previous completed call: its unit, result and file system
    calls,       \* calls of download_one_hour begun so far
    \* ---- download_dukascopy_ticks (SchedSpec) ----
    start_date,  \* <<year, month, day>>
    end_date,    \* <<year, month, day>>
    threads,     \* max_workers of the ThreadPoolExecutor
    sched_pc,    \* where the main thread stands
    current_date,\* the loop variable of line 73
    tasks,       \* the list tasks: <<year, month, day, hour>> in append order
    future_to_task, \* the futures in submission order: task, state, result, yields
    queue,       \* the executor's work queue: futures submitted and not yet started
    \* ---- bi5_to_csv (ConvSpec) ----
    bi5,         \* the .bi5 file: whether lzma can decompress it, and to which bytes
    anchor,      \* the arguments date_str and hour: [date, hour]
    conv_pc,     \* where the call of bi5_to_csv stands
    decompressed_data, \* the local variable of line 33
    csv,         \* the file at csv_path: Absent or its rows, header first
    pos,         \* the loop variable i of line 45
    printed      \* what the call has printed: "", "Error decompressing" or "Converted"

syncVars == <<fs, remote, pc, unit, local_size, new_data, nwritten, result,
              n_head, n_get, head_resp, get_resp, io_error, pre, last, calls>>

schedVars == <<start_date, end_date, threads, sched_pc, current_date, tasks,
               future_to_task, queue>>

convVars == <<bi5, anchor, conv_pc, decompressed_data, csv, pos, printed>>

vars == <<syncVars, schedVars, convVars>>

\* what the actions of each component leave alone
notSync == <<schedVars, convVars>>
notSched == <<syncVars, convVars>>
notConv == <<syncVars, schedVars>>

----------------------------------------------------------------------------
(* Bounds of the model. *)

\* Longest artifact, local or remote, in bytes.
MaxLen == 2
\* Calls of download_one_hour in one behaviour of Spec.
MaxCalls == 2
\* Hours enumerated per day: range(24) in the source (line 75), range(HoursPerDay)
\* in the model.
HoursPerDay == 2
\* Longest date range of a scheduler run, in days.
MaxDays == 2
\* Largest worker count of a scheduler run.
MaxThreads == 2
\* Most complete records in a decompressed artifact.
MaxRecords == 2

----------------------------------------------------------------------------
(* Values. *)

\* A path (local) or an artifact (remote) that does not exist, and one that does.
Absent == [exists |-> FALSE, data |-> <<>>]
File(d) == [exists |-> TRUE, data |-> d]

\* A header that is missing (headers.get returns None), and one with a value.
None == [present |-> FALSE, value |-> <<>>]
Header(v) == [present |-> TRUE, value |-> v]

NoUnit == <<>>

\* The byte values artifacts are made of: two suffice to tell two artifacts
\* of one length apart.
ByteVals == {0, 1}

RECURSIVE SeqsUpTo(_, _)
SeqsUpTo(S, n) ==
    IF n = 0 THEN {<<>>}
    ELSE LET shorter == SeqsUpTo(S, n - 1)
         IN  shorter \cup {Append(s, x) : s \in {t \in shorter : Len(t) = n - 1}, x \in S}

Contents == SeqsUpTo(ByteVals, MaxLen)

\* Remote artifacts are drawn from one byte value: a local file can still
\* differ from a remote artifact of its own length.
RemoteContents == SeqsUpTo({0}, MaxLen)

Prefix(s, k) == SubSeq(s, 1, k)

----------------------------------------------------------------------------
(* Unit addressing: lines 14-24 of download_one_hour. *)

DigitChars == <<"0", "1", "2", "3", "4", "5", "6", "7", "8", "9">>

RECURSIVE Digits(_)
\* str(n) for n >= 0
Digits(n) == IF n < 10 THEN <<DigitChars[n + 1]>>
             ELSE Append(Digits(n \div 10), DigitChars[(n % 10) + 1])

RECURSIVE ZeroPad(_, _)
\* f"{n:0wd}": at least w characters, zeros on the left
ZeroPad(s, w) == IF Len(s) >= w THEN s ELSE ZeroPad(<<"0">> \o s, w)

\* Filename with the hour left out of the name
Filename_NoHour(year, month, day, hour) ==
    ZeroPad(Digits(year), 4) \o ZeroPad(Digits(month), 2) \o ZeroPad(Digits(day), 2)
        \o <<"_">> \o <<"h_ticks.bi5">>

\* date_str and filename (lines 18-19); the instrument and the output folder are
\* the same for every unit of a run and are left out.
Filename(year, month, day, hour) ==
    ZeroPad(Digits(year), 4) \o ZeroPad(Digits(month), 2) \o ZeroPad(Digits(day), 2)
        \o <<"_">> \o ZeroPad(Digits(hour), 2) \o <<"h_ticks.bi5">>

\* url (lines 14-17): the year is not padded
Url(year, month, day, hour) ==
    Digits(year) \o <<"/">> \o ZeroPad(Digits(month), 2) \o <<"/">>
        \o ZeroPad(Digits(day), 2) \o <<"/">> \o ZeroPad(Digits(hour), 2) \o <<"h_ticks.bi5">>

Filepath(u) == Filename(u[1], u[2], u[3], u[4])
UrlOf(u) == Url(u[1], u[2], u[3], u[4])

\* The units Spec calls download_one_hour for.
SyncUnits == {<<2024, 2, 29, 23>>, <<2024, 3, 1, 0>>}
SyncPaths == {Filepath(u) : u \in SyncUnits}
SyncUrls == {UrlOf(u) : u \in SyncUnits}

----------------------------------------------------------------------------
(* The network: what requests.head and requests.get can do for an artifact. *)

\* No request made yet.
NoResp == [kind |-> "none", status |-> 0, content_length |-> None, content |-> <<>>]
\* The request raised (connection failure, timeout).
Raised == [kind |-> "raised", status |-> 0, content_length |-> None, content |-> <<>>]
Response(st, cl, body) ==
    [kind |-> "response", status |-> st, content_length |-> cl, content |-> body]

\* The server answers HEAD for artifact r: an error status, or 200 with a
\* Content-Length header that is r's length, is missing, or is not a number.
HeadResponses(r) ==
    {Raised, Response(503, None, <<>>)}
    \cup (IF r.exists
          THEN {Response(200, Header(Digits(Len(r.data))), <<>>),
                Response(200, None, <<>>),
                Response(200, Header(<<"x">>), <<>>)}
          ELSE {Response(404, None, <<>>)})

\* The server answers GET for artifact r: an error status, or 200 with r's
\* bytes (which may be none: an hour without ticks).
GetResponses(r) ==
    {Raised, Response(503, None, <<1>>)}
    \cup (IF r.exists
          THEN {Response(200, Header(Digits(Len(r.data))), r.data)}
          ELSE {Response(404, None, <<>>)})

DigitValue(c) == CHOOSE i \in 0..9 : DigitChars[i + 1] = c
IsDigit(c) == \E i \in 1..10 : DigitChars[i] = c

RECURSIVE IntOfDigits(_)
IntOfDigits(s) ==
    IF s = <<>> THEN 0
    ELSE 10 * IntOfDigits(SubSeq(s, 1, Len(s) - 1)) + DigitValue(s[Len(s)])

\* int(content_length) (line 36): the number, or ValueError
ParseInt(s) ==
    IF s # <<>> /\ \A i \in 1..Len(s) : IsDigit(s[i])
    THEN [ok |-> TRUE, value |-> IntOfDigits(s)]
    ELSE [ok |-> FALSE, value |-> 0]

----------------------------------------------------------------------------
(* download_one_hour (lines 9-65), one action per statement that reads or    *)
(* changes the file system or the network.                                   *)

\* The strings download_one_hour returns (lines 39, 56, 61, 63, 65).
SkippedSameSize == "Skipped (same size)"
SkippedAfterGet == "Skipped (same size after GET)"
DownloadedMsg == "Downloaded"
NoDataMsg == "No data"
ErrorMsg == "Error downloading"
Results == {SkippedSameSize, SkippedAfterGet, DownloadedMsg, NoDataMsg, ErrorMsg}

\* The outcome a returned string stands for.
Outcome(res) ==
    CASE res \in {SkippedSameSize, SkippedAfterGet} -> "Skipped"
      [] res = DownloadedMsg -> "Downloaded"
      [] res \in {NoDataMsg, ErrorMsg} -> "Failed"
      [] OTHER -> "none"

\* ProbeWanted with the emptiness test lost: every call sends HEAD first
ProbeWanted_Always(f) == TRUE

\* lines 27-30: the file exists and is not empty, so HEAD is tried
ProbeWanted(f) == f.exists /\ Len(f.data) > 0

\* ProbeSaysSame with int() forgotten: a header string never equals a number
ProbeSaysSame_NoInt(resp, size) ==
    /\ resp.kind = "response"
    /\ resp.status = 200
    /\ resp.content_length.present
    /\ FALSE

\* lines 33-38: HEAD answered 200 with a Content-Length equal to local_size
ProbeSaysSame(resp, size) ==
    /\ resp.kind = "response"
    /\ resp.status = 200
    /\ resp.content_length.present
    /\ ParseInt(resp.content_length.value).ok
    /\ ParseInt(resp.content_length.value).value = size

\* TransferOk without "and get_resp.content"
TransferOk_StatusOnly(resp) ==
    resp.kind = "response" /\ resp.status = 200

\* line 48: GET answered 200 with a body that is not empty
TransferOk(resp) ==
    resp.kind = "response" /\ resp.status = 200 /\ resp.content # <<>>

\* SameSizeAfterGet with the comparison after GET lost: every body is written
SameSizeAfterGet_Never(f, data) == FALSE

\* SameSizeAfterGet comparing the bytes instead of the sizes
SameSizeAfterGet_Content(f, data) == f.exists /\ data = f.data

\* lines 53-55: the file exists and is as long as the body
SameSizeAfterGet(f, data) == f.exists /\ Len(data) = Len(f.data)

NoCall == [unit |-> NoUnit, result |-> "", fs |-> <<>>]

\* download_one_hour is called for unit u (line 9).
Call(u) ==
    /\ pc = "idle"
    /\ calls < MaxCalls
    /\ calls' = calls + 1
    /\ unit' = u
    /\ pre' = fs
    /\ pc' = "exists"
    /\ local_size' = 0
    /\ new_data' = <<>>
    /\ nwritten' = 0
    /\ result' = ""
    /\ n_head' = 0
    /\ n_get' = 0
    /\ head_resp' = NoResp
    /\ get_resp' = NoResp
    /\ io_error' = FALSE
    /\ UNCHANGED <<fs, remote, last>>
    /\ UNCHANGED notSync

\* lines 27-30: os.path.exists, os.path.getsize, local_size > 0
CheckExists ==
    /\ pc = "exists"
    /\ LET f == fs[Filepath(unit)]
       IN  /\ local_size' = IF f.exists THEN Len(f.data) ELSE local_size
           /\ pc' = IF ProbeWanted(f) THEN "head" ELSE "get"
    /\ UNCHANGED <<fs, remote, unit, new_data, nwritten, result, n_head, n_get,
                   head_resp, get_resp, io_error, pre, last, calls>>
    /\ UNCHANGED notSync

\* HeadRequest with the except clause of lines 41-43 returning the error
\* instead of passing
HeadRequest_ReturnOnError ==
    /\ pc = "head"
    /\ \E r \in HeadResponses(remote[UrlOf(unit)]) :
          /\ head_resp' = r
          /\ n_head' = n_head + 1
          /\ IF ProbeSaysSame(r, local_size)
             THEN result' = SkippedSameSize /\ pc' = "return"
             ELSE IF r.kind = "raised"
             THEN result' = ErrorMsg /\ pc' = "return"
             ELSE result' = result /\ pc' = "get"
    /\ UNCHANGED <<fs, remote, unit, local_size, new_data, nwritten, n_get,
                   get_resp, io_error, pre, last, calls>>
    /\ UNCHANGED notSync

\* lines 31-43: requests.head and what follows from its answer
HeadRequest ==
    /\ pc = "head"
    /\ \E r \in HeadResponses(remote[UrlOf(unit)]) :
          /\ head_resp' = r
          /\ n_head' = n_head + 1
          /\ IF ProbeSaysSame(r, local_size)
             THEN result' = SkippedSameSize /\ pc' = "return"
             ELSE result' = result /\ pc' = "get"
    /\ UNCHANGED <<fs, remote, unit, local_size, new_data, nwritten, n_get,
                   get_resp, io_error, pre, last, calls>>
    /\ UNCHANGED notSync

\* GetRequest trying once more after a GET that raised
GetRequest_RetryOnError ==
    /\ pc = "get"
    /\ \E r \in GetResponses(remote[UrlOf(unit)]) :
          /\ get_resp' = r
          /\ n_get' = n_get + 1
          /\ IF r.kind = "raised"
             THEN IF n_get = 0
                  THEN result' = result /\ pc' = "get" /\ new_data' = new_data
                  ELSE result' = ErrorMsg /\ pc' = "return" /\ new_data' = new_data
             ELSE IF TransferOk(r)
             THEN result' = result /\ pc' = "compare" /\ new_data' = r.content
             ELSE result' = NoDataMsg /\ pc' = "return" /\ new_data' = new_data
    /\ UNCHANGED <<fs, remote, unit, local_size, nwritten, n_head, head_resp,
                   io_error, pre, last, calls>>
    /\ UNCHANGED notSync

\* lines 46-49 and 62-65: requests.get and what follows from its answer
GetRequest ==
    /\ pc = "get"
    /\ \E r \in GetResponses(remote[UrlOf(unit)]) :
          /\ get_resp' = r
          /\ n_get' = n_get + 1
          /\ IF r.kind = "raised"
             THEN result' = ErrorMsg /\ pc' = "return" /\ new_data' = new_data
             ELSE IF TransferOk(r)
             THEN result' = result /\ pc' = "compare" /\ new_data' = r.content
             ELSE result' = NoDataMsg /\ pc' = "return" /\ new_data' = new_data
    /\ UNCHANGED <<fs, remote, unit, local_size, nwritten, n_head, head_resp,
                   io_error, pre, last, calls>>
    /\ UNCHANGED notSync

\* lines 52-56: the sizes are compared once the body is here
Compare ==
    /\ pc = "compare"
    /\ LET f == fs[Filepath(unit)]
       IN  /\ local_size' = IF f.exists THEN Len(f.data) ELSE local_size
           /\ IF SameSizeAfterGet(f, new_data)
              THEN result' = SkippedAfterGet /\ pc' = "return"
              ELSE result' = result /\ pc' = "open"
    /\ UNCHANGED <<fs, remote, unit, new_data, nwritten, n_head, n_get,
                   head_resp, get_resp, io_error, pre, last, calls>>
    /\ UNCHANGED notSync

\* Open emptying every artifact of the folder, not only the call's own
Open_WholeFolder ==
    /\ pc = "open"
    /\ fs' = [p \in DOMAIN fs |->
                 IF p = Filepath(unit) \/ fs[p].exists THEN File(<<>>) ELSE fs[p]]
    /\ pc' = "write"
    /\ UNCHANGED <<remote, unit, local_size, new_data, nwritten, result, n_head,
                   n_get, head_resp, get_resp, io_error, pre, last, calls>>
    /\ UNCHANGED notSync

\* Open in a mode that does not truncate ("r+b" for a file that exists)
Open_NoTruncate ==
    /\ pc = "open"
    /\ fs' = [fs EXCEPT ![Filepath(unit)] = IF @.exists THEN @ ELSE File(<<>>)]
    /\ pc' = "write"
    /\ UNCHANGED <<remote, unit, local_size, new_data, nwritten, result, n_head,
                   n_get, head_resp, get_resp, io_error, pre, last, calls>>
    /\ UNCHANGED notSync

\* line 59: open(filepath, "wb") creates the file or truncates it
Open ==
    /\ pc = "open"
    /\ fs' = [fs EXCEPT ![Filepath(unit)] = File(<<>>)]
    /\ pc' = "write"
    /\ UNCHANGED <<remote, unit, local_size, new_data, nwritten, result, n_head,
                   n_get, head_resp, get_resp, io_error, pre, last, calls>>
    /\ UNCHANGED notSync

\* line 59 raising OSError, caught at line 64
OpenFails ==
    /\ pc = "open"
    /\ io_error' = TRUE
    /\ result' = ErrorMsg
    /\ pc' = "return"
    /\ UNCHANGED <<fs, remote, unit, local_size, new_data, nwritten, n_head,
                   n_get, head_resp, get_resp, pre, last, calls>>
    /\ UNCHANGED notSync

\* Write leaving the last byte of every step behind
Write_OffByOne ==
    /\ pc = "write"
    /\ nwritten < Len(new_data)
    /\ nwritten' = nwritten + 1
    /\ fs' = [fs EXCEPT ![Filepath(unit)] = File(Prefix(new_data, nwritten))]
    /\ UNCHANGED <<remote, pc, unit, local_size, new_data, result, n_head,
                   n_get, head_resp, get_resp, io_error, pre, last, calls>>
    /\ UNCHANGED notSync

\* line 60: f.write(new_data) reaches the file byte after byte, each byte at
\* the file position, over whatever the file holds there
Write ==
    /\ pc = "write"
    /\ nwritten < Len(new_data)
    /\ nwritten' = nwritten + 1
    /\ fs' = [fs EXCEPT ![Filepath(unit)] =
                 File(Prefix(new_data, nwritten + 1)
                          \o SubSeq(@.data, nwritten + 2, Len(@.data)))]
    /\ UNCHANGED <<remote, pc, unit, local_size, new_data, result, n_head,
                   n_get, head_resp, get_resp, io_error, pre, last, calls>>
    /\ UNCHANGED notSync

\* line 60 raising OSError part-way (disk full, I/O error), caught at line 64
WriteFails ==
    /\ pc = "write"
    /\ nwritten < Len(new_data)
    /\ io_error' = TRUE
    /\ result' = ErrorMsg
    /\ pc' = "return"
    /\ UNCHANGED <<fs, remote, unit, local_size, new_data, nwritten, n_head,
                   n_get, head_resp, get_resp, pre, last, calls>>
    /\ UNCHANGED notSync

\* line 61: the file is closed with every byte in it
WriteDone ==
    /\ pc = "write"
    /\ nwritten = Len(new_data)
    /\ result' = DownloadedMsg
    /\ pc' = "return"
    /\ UNCHANGED <<fs, remote, unit, local_size, new_data, nwritten, n_head,
                   n_get, head_resp, get_resp, io_error, pre, last, calls>>
    /\ UNCHANGED notSync

\* the call returns result to its caller
Return ==
    /\ pc = "return"
    /\ pc' = "idle"
    /\ last' = [unit |-> unit, result |-> result, fs |-> fs]
    /\ UNCHANGED <<fs, remote, unit, local_size, new_data, nwritten, result,
                   n_head, n_get, head_resp, get_resp, io_error, pre, calls>>
    /\ UNCHANGED notSync

LocalStates == {Absent} \cup {File(d) : d \in Contents}
RemoteStates == {Absent} \cup {File(d) : d \in RemoteContents}

SyncInit ==
    /\ fs \in [SyncPaths -> LocalStates]
    /\ remote \in [SyncUrls -> RemoteStates]
    /\ pc = "idle"
    /\ unit = NoUnit
    /\ local_size = 0
    /\ new_data = <<>>
    /\ nwritten = 0
    /\ result = ""
    /\ n_head = 0
    /\ n_get = 0
    /\ head_resp = NoResp
    /\ get_resp = NoResp
    /\ io_error = FALSE
    /\ pre = fs
    /\ last = NoCall
    /\ calls = 0

SyncNext ==
    \/ \E u \in SyncUnits : Call(u)
    \/ CheckExists
    \/ HeadRequest
    \/ GetRequest
    \/ Compare
    \/ Open
    \/ OpenFails
    \/ Write
    \/ WriteFails
    \/ WriteDone
    \/ Return

----------------------------------------------------------------------------
(* Calendar dates as datetime.date has them: <<year, month, day>>, ordered   *)
(* by year, then month, then day, from 0001-01-01 to 9999-12-31.             *)

IsLeap(y) == (y % 4 = 0 /\ y % 100 # 0) \/ y % 400 = 0

DaysInMonth(y, m) ==
    IF m = 2 THEN (IF IsLeap(y) THEN 29 ELSE 28)
    ELSE IF m \in {4, 6, 9, 11} THEN 30 ELSE 31

\* date.max
DateMax == <<9999, 12, 31>>

\* a <= b on dates
DateLE(a, b) ==
    \/ a[1] < b[1]
    \/ a[1] = b[1] /\ a[2] < b[2]
    \/ a[1] = b[1] /\ a[2] = b[2] /\ a[3] <= b[3]

\* d + timedelta(days=1), for d before date.max
PlusOneDay(d) ==
    IF d[3] < DaysInMonth(d[1], d[2]) THEN <<d[1], d[2], d[3] + 1>>
    ELSE IF d[2] < 12 THEN <<d[1], d[2] + 1, 1>>
    ELSE <<d[1] + 1, 1, 1>>

RECURSIVE PlusDays(_, _)
PlusDays(d, n) == IF n = 0 THEN d ELSE PlusDays(PlusOneDay(d), n - 1)

\* date.toordinal(): the days from 0001-01-01 to d, counted from 1
DaysBeforeYear(y) ==
    (y - 1) * 365 + ((y - 1) \div 4) - ((y - 1) \div 100) + ((y - 1) \div 400)

RECURSIVE DaysBeforeMonth(_, _)
DaysBeforeMonth(y, m) ==
    IF m = 1 THEN 0 ELSE DaysBeforeMonth(y, m - 1) + DaysInMonth(y, m - 1)

Ordinal(d) == DaysBeforeYear(d[1]) + DaysBeforeMonth(d[1], d[2]) + d[3]

----------------------------------------------------------------------------
(* download_dukascopy_ticks (lines 67-89): the main thread, the executor's   *)
(* workers, and the as_completed loop.                                       *)

\* The tasks one pass of the for loop appends for date d (lines 75-83); the
\* instrument and the output folder, the same in every task, are left out.
TasksOfDay(d) == [h \in 1..HoursPerDay |-> <<d[1], d[2], d[3], h - 1>>]

\* A future as executor.submit creates it.
NewFuture(t) == [task |-> t, state |-> "queued", result |-> "", yields |-> 0]

FutureIds == 1..Len(future_to_task)
Running == {i \in FutureIds : future_to_task[i].state = "running"}
Finished == {i \in FutureIds : future_to_task[i].state = "finished"}

\* EnumerateDay with the loop's comparison strict: the last day is left out
EnumerateDay_Exclusive ==
    /\ sched_pc = "enumerate"
    /\ DateLE(current_date, end_date)
    /\ tasks' = IF current_date = end_date THEN tasks
                ELSE tasks \o TasksOfDay(current_date)
    /\ IF current_date = DateMax
       THEN sched_pc' = "raised" /\ current_date' = current_date
       ELSE sched_pc' = sched_pc /\ current_date' = PlusOneDay(current_date)
    /\ UNCHANGED <<start_date, end_date, threads, future_to_task, queue>>
    /\ UNCHANGED notSched

\* lines 74-84: one pass of the while loop. current_date += timedelta(days=1)
\* raises OverflowError at date.max, and the exception leaves the function.
EnumerateDay ==
    /\ sched_pc = "enumerate"
    /\ DateLE(current_date, end_date)
    /\ tasks' = tasks \o TasksOfDay(current_date)
    /\ IF current_date = DateMax
       THEN sched_pc' = "raised" /\ current_date' = current_date
       ELSE sched_pc' = sched_pc /\ current_date' = PlusOneDay(current_date)
    /\ UNCHANGED <<start_date, end_date, threads, future_to_task, queue>>
    /\ UNCHANGED notSched

\* line 74 found false: the loop ends
EnumerateEnd ==
    /\ sched_pc = "enumerate"
    /\ ~DateLE(current_date, end_date)
    /\ sched_pc' = "pool"
    /\ UNCHANGED <<start_date, end_date, threads, current_date, tasks,
                   future_to_task, queue>>
    /\ UNCHANGED notSched

\* line 86: ThreadPoolExecutor(max_workers=threads) raises ValueError unless
\* threads > 0
CreatePool ==
    /\ sched_pc = "pool"
    /\ sched_pc' = IF threads > 0 THEN "submit" ELSE "raised"
    /\ UNCHANGED <<start_date, end_date, threads, current_date, tasks,
                   future_to_task, queue>>
    /\ UNCHANGED notSched

\* line 87: executor.submit for the next task of tasks
Submit ==
    /\ sched_pc = "submit"
    /\ Len(future_to_task) < Len(tasks)
    /\ LET t == tasks[Len(future_to_task) + 1]
       IN  /\ future_to_task' = Append(future_to_task, NewFuture(t))
           /\ queue' = Append(queue, Len(future_to_task) + 1)
    /\ UNCHANGED <<start_date, end_date, threads, sched_pc, current_date, tasks>>
    /\ UNCHANGED notSched

\* line 87: the comprehension has gone through tasks
SubmitEnd ==
    /\ sched_pc = "submit"
    /\ Len(future_to_task) = Len(tasks)
    /\ sched_pc' = "as_completed"
    /\ UNCHANGED <<start_date, end_date, threads, current_date, tasks,
                   future_to_task, queue>>
    /\ UNCHANGED notSched

\* WorkerFree letting one call more than max_workers run
WorkerFree_OneMore == Cardinality(Running) <= threads

\* WorkerFree keeping one worker of the pool back
WorkerFree_OneLess == Cardinality(Running) < threads - 1

\* a worker of the pool is free: fewer than max_workers calls are running
WorkerFree == Cardinality(Running) < threads

\* a free worker takes the oldest future of the work queue and calls
\* download_one_hour for its task
WorkerStart ==
    /\ queue # <<>>
    /\ WorkerFree
    /\ future_to_task' = [future_to_task EXCEPT ![Head(queue)].state = "running"]
    /\ queue' = Tail(queue)
    /\ UNCHANGED <<start_date, end_date, threads, sched_pc, current_date, tasks>>
    /\ UNCHANGED notSched

\* the call of download_one_hour for future i returns one of its strings
\* (lines 39, 56, 61, 63, 65) and the future holds it
WorkerFinish(i) ==
    /\ i \in Running
    /\ \E res \in Results :
          future_to_task' = [future_to_task EXCEPT ![i].state = "finished",
                                                   ![i].result = res]
    /\ UNCHANGED <<start_date, end_date, threads, sched_pc, current_date, tasks,
                   queue>>
    /\ UNCHANGED notSched

\* the futures as_completed has still to yield: the finished ones it has not
\* yielded before
ToYield == {i \in Finished : future_to_task[i].yields = 0}

\* Report with a future whose call failed raising from future.result(), which
\* ends the loop and the run
Report_RaiseOnFailed(i) ==
    /\ sched_pc = "as_completed"
    /\ i \in ToYield
    /\ future_to_task' = [future_to_task EXCEPT ![i].yields = @ + 1]
    /\ sched_pc' = IF Outcome(future_to_task[i].result) = "Failed"
                   THEN "raised" ELSE sched_pc
    /\ UNCHANGED <<start_date, end_date, threads, current_date, tasks, queue>>
    /\ UNCHANGED notSched

\* lines 88-89: as_completed yields a finished future and its result is printed
Report(i) ==
    /\ sched_pc = "as_completed"
    /\ i \in ToYield
    /\ future_to_task' = [future_to_task EXCEPT ![i].yields = @ + 1]
    /\ UNCHANGED <<start_date, end_date, threads, sched_pc, current_date, tasks,
                   queue>>
    /\ UNCHANGED notSched

\* as_completed has yielded every future: the loop ends, and the with block
\* shuts the pool down
AllYielded == \A i \in FutureIds : future_to_task[i].yields > 0

AsCompletedEnd ==
    /\ sched_pc = "as_completed"
    /\ AllYielded
    /\ sched_pc' = "done"
    /\ UNCHANGED <<start_date, end_date, threads, current_date, tasks,
                   future_to_task, queue>>
    /\ UNCHANGED notSched

\* The first days of the runs of SchedSpec: before a leap day, the end of a
\* month, the end of a year, and the last two days a date can be.
StartDates == {<<2024, 2, 28>>, <<2023, 2, 28>>, <<2023, 12, 31>>,
               <<9999, 12, 30>>, <<9999, 12, 31>>}

\* The last days of the runs that start on d: up to MaxDays days from d, and
\* one day before every start.
EndDates(d) ==
    {PlusDays(d, k) : k \in {n \in 0..(MaxDays - 1) : n = 0 \/ PlusDays(d, n - 1) # DateMax}}
        \cup {<<2023, 1, 1>>}

SchedInit ==
    /\ start_date \in StartDates
    /\ end_date \in EndDates(start_date)
    /\ threads \in 0..MaxThreads
    /\ sched_pc = "enumerate"
    /\ current_date = start_date
    /\ tasks = <<>>
    /\ future_to_task = <<>>
    /\ queue = <<>>

SchedNext ==
    \/ EnumerateDay
    \/ EnumerateEnd
    \/ CreatePool
    \/ Submit
    \/ SubmitEnd
    \/ WorkerStart
    \/ \E i \in FutureIds : WorkerFinish(i)
    \/ \E i \in FutureIds : Report(i)
    \/ AsCompletedEnd

----------------------------------------------------------------------------
(* bi5_to_csv (src/convert.py, lines 10-70).                                 *)

\* record_size (line 44)
record_size == 20

\* struct.pack(">i", x): the four bytes, big-endian, of the two's complement
\* of the signed 32-bit integer x
PackInt32(x) ==
    <<(x \div 16777216) % 256, (x \div 65536) % 256, (x \div 256) % 256, x % 256>>

\* struct.unpack(">i", b): four bytes, big-endian, as a signed 32-bit integer
\* (a first byte of 128 or more makes it negative)
UnpackInt32(b) ==
    (IF b[1] >= 128 THEN b[1] - 256 ELSE b[1]) * 16777216
        + b[2] * 65536 + b[3] * 256 + b[4]

\* struct.unpack(">iiiii", chunk) (line 53)
Unpack(chunk) == [k \in 1..5 |-> UnpackInt32(SubSeq(chunk, 4 * k - 3, 4 * k))]

\* a record as the archive lays it out (docstring, lines 14-19): 20 bytes. The
\* offset is given as its four bytes, the other fields as signed integers.
PackRecord(r) ==
    r[1] \o PackInt32(r[2]) \o PackInt32(r[3]) \o PackInt32(r[4]) \o PackInt32(r[5])

RECURSIVE PackRecords(_)
PackRecords(rs) == IF rs = <<>> THEN <<>> ELSE PackRecord(Head(rs)) \o PackRecords(Tail(rs))

\* A datetime: the ordinal of its day and the milliseconds since midnight.
MsPerHour == 3600000
MsPerDay == 86400000

\* base_datetime (lines 26-27)
BaseDatetime(a) == [day |-> Ordinal(a.date), ms |-> a.hour * MsPerHour]

\* dt + timedelta(milliseconds=n) (line 56), n of either sign
PlusMilliseconds(dt, n) ==
    LET total == dt.ms + (n % MsPerDay)
    IN  [day |-> dt.day + (n \div MsPerDay) + (total \div MsPerDay),
         ms |-> total % MsPerDay]

\* lines 56-68: the row written for one unpacked record; a price is the raw
\* integer over 100000
Row(base, f) ==
    [timestamp |-> PlusMilliseconds(base, f[1]),
     ask |-> [num |-> f[2], den |-> 100000],
     bid |-> [num |-> f[3], den |-> 100000],
     ask_volume |-> f[4],
     bid_volume |-> f[5]]

\* the header row (line 41), in the shape of a row
HeaderRow == [timestamp |-> [day |-> 0, ms |-> 0], ask |-> [num |-> 0, den |-> 0],
              bid |-> [num |-> 0, den |-> 0], ask_volume |-> 0, bid_volume |-> 0]

\* chunk = decompressed_data[i:i+record_size] (line 46), i counted from 0
Chunk(data, i) ==
    SubSeq(data, i + 1, IF i + record_size <= Len(data) THEN i + record_size ELSE Len(data))

\* ChunkIncomplete with the comparison off by one: a full chunk is dropped too
ChunkIncomplete_OrEqual(chunk) == Len(chunk) <= record_size

\* line 47: the chunk is shorter than a record
ChunkIncomplete(chunk) == Len(chunk) < record_size

\* lines 30-33: the file is read and lzma.decompress returns its bytes
Decompress ==
    /\ conv_pc = "start"
    /\ bi5.valid
    /\ decompressed_data' = bi5.payload
    /\ conv_pc' = "open_csv"
    /\ UNCHANGED <<bi5, anchor, csv, pos, printed>>
    /\ UNCHANGED notConv

\* DecompressFails with the output opened, and its header written, before
\* the artifact is decompressed
DecompressFails_AfterOpen ==
    /\ conv_pc = "start"
    /\ ~bi5.valid
    /\ csv' = File(<<HeaderRow>>)
    /\ printed' = "Error decompressing"
    /\ conv_pc' = "done"
    /\ UNCHANGED <<bi5, anchor, decompressed_data, pos>>
    /\ UNCHANGED notConv

\* lines 34-36: lzma.decompress raises LZMAError; the call prints and returns
DecompressFails ==
    /\ conv_pc = "start"
    /\ ~bi5.valid
    /\ printed' = "Error decompressing"
    /\ conv_pc' = "done"
    /\ UNCHANGED <<bi5, anchor, decompressed_data, csv, pos>>
    /\ UNCHANGED notConv

\* lines 39-41: the output is opened for writing and the header row written
OpenCsv ==
    /\ conv_pc = "open_csv"
    /\ csv' = File(<<HeaderRow>>)
    /\ pos' = 0
    /\ conv_pc' = "loop"
    /\ UNCHANGED <<bi5, anchor, decompressed_data, printed>>
    /\ UNCHANGED notConv

\* lines 45-68: one pass of the for loop
ConvertChunk ==
    /\ conv_pc = "loop"
    /\ pos < Len(decompressed_data)
    /\ LET chunk == Chunk(decompressed_data, pos)
       IN  IF ChunkIncomplete(chunk)
           THEN /\ conv_pc' = "close"
                /\ UNCHANGED <<csv, pos>>
           ELSE /\ csv' = File(Append(csv.data, Row(BaseDatetime(anchor), Unpack(chunk))))
                /\ pos' = pos + record_size
                /\ conv_pc' = conv_pc
    /\ UNCHANGED <<bi5, anchor, decompressed_data, printed>>
    /\ UNCHANGED notConv

\* line 45: range(0, len(decompressed_data), record_size) is exhausted
LoopEnd ==
    /\ conv_pc = "loop"
    /\ pos >= Len(decompressed_data)
    /\ conv_pc' = "close"
    /\ UNCHANGED <<bi5, anchor, decompressed_data, csv, pos, printed>>
    /\ UNCHANGED notConv

\* line 70: the output is closed and the call prints "Converted"
CloseCsv ==
    /\ conv_pc = "close"
    /\ printed' = "Converted"
    /\ conv_pc' = "done"
    /\ UNCHANGED <<bi5, anchor, decompressed_data, csv, pos>>
    /\ UNCHANGED notConv

\* The records the artifacts of ConvSpec are made of: <<offset_ms, ask_raw,
\* bid_raw, ask_volume, bid_volume>>, the offset as the unsigned number the
\* archive stores.
SampleRecords ==
    {<<PackInt32(1500), 109234, 109210, 3, 5>>,
     <<PackInt32(3599999), -1, 0, -7, 2147483647>>,
     <<(<<128, 0, 0, 0>>), 109234, 109233, 1, 1>>}

\* the decompressed artifacts: up to MaxRecords records and a tail of fewer
\* than record_size bytes
Payloads ==
    {PackRecords(rs) \o [k \in 1..t |-> 255] :
        rs \in SeqsUpTo(SampleRecords, MaxRecords), t \in 0..(record_size - 1)}

\* a row left in the output by an earlier conversion
StaleRow == Row([day |-> 1, ms |-> 0], <<0, 0, 0, 0, 0>>)

ConvInit ==
    /\ bi5 \in [valid : BOOLEAN, payload : Payloads]
    /\ anchor \in [date : {<<2024, 11, 3>>}, hour : {0, 5, 23}]
    /\ conv_pc = "start"
    /\ decompressed_data = <<>>
    /\ csv \in {Absent, File(<<HeaderRow, StaleRow>>)}
    /\ pos = 0
    /\ printed = ""

ConvNext ==
    \/ Decompress
    \/ DecompressFails
    \/ OpenCsv
    \/ ConvertChunk
    \/ LoopEnd
    \/ CloseCsv

----------------------------------------------------------------------------
(* The specifications. *)

\* download_one_hour with no call in progress and nothing on disk
SyncIdle ==
    /\ fs = [p \in SyncPaths |-> Absent]
    /\ remote = [p \in SyncUrls |-> Absent]
    /\ pc = "idle"
    /\ unit = NoUnit
    /\ local_size = 0
    /\ new_data = <<>>
    /\ nwritten = 0
    /\ result = ""
    /\ n_head = 0
    /\ n_get = 0
    /\ head_resp = NoResp
    /\ get_resp = NoResp
    /\ io_error = FALSE
    /\ pre = fs
    /\ last = NoCall
    /\ calls = 0

\* the scheduler not run
SchedIdle ==
    /\ start_date = <<2023, 1, 1>>
    /\ end_date = <<2023, 1, 1>>
    /\ threads = 0
    /\ sched_pc = "idle"
    /\ current_date = start_date
    /\ tasks = <<>>
    /\ future_to_task = <<>>
    /\ queue = <<>>

\* the converter not run
ConvIdle ==
    /\ bi5 = [valid |-> FALSE, payload |-> <<>>]
    /\ anchor = [date |-> <<2024, 11, 3>>, hour |-> 0]
    /\ conv_pc = "idle"
    /\ decompressed_data = <<>>
    /\ csv = Absent
    /\ pos = 0
    /\ printed = ""

Init == SyncInit /\ SchedIdle /\ ConvIdle
Next == SyncNext
Spec == Init /\ [][Next]_vars

SchedIni == SchedInit /\ SyncIdle /\ ConvIdle
SchedSpec == SchedIni /\ [][SchedNext]_vars

\* Every call of download_one_hour returns (requests time out after 10 s, lines
\* 32 and 47) and the executor keeps its workers and the main thread running.
SchedFairSpec == SchedSpec /\ WF_vars(SchedNext)

ConvIni == ConvInit /\ SyncIdle /\ SchedIdle
ConvSpec == ConvIni /\ [][ConvNext]_vars

----------------------------------------------------------------------------
(* Claims about download_one_hour, checked under Spec.                       *)

\* the local path of each unit of Spec, tabulated once
PathTable == [u \in SyncUnits |-> Filepath(u)]

\* The path of the current call, and what the call found and left there.
ThePath == PathTable[unit]
Found == pre[ThePath]
Now == fs[ThePath]
InCall == calls > 0
Returned == InCall /\ pc \in {"return", "idle"}

\* HEAD answered 200 and reported size n.
ProbeReported(n) ==
    /\ head_resp.kind = "response"
    /\ head_resp.status = 200
    /\ head_resp.content_length = Header(Digits(n))

\* GET was issued and did not deliver a body: it raised, answered another
\* status than 200, or answered 200 with no bytes.
TransferFailed ==
    /\ get_resp.kind # "none"
    /\ \/ get_resp.kind = "raised"
       \/ get_resp.status # 200
       \/ Len(get_resp.content) = 0

\* GET answered 200 with a body.
TransferSucceeded ==
    get_resp.kind = "response" /\ get_resp.status = 200 /\ Len(get_resp.content) > 0

\* C1: when the local artifact exists and is not empty and HEAD answers 200
\* with a size equal to the local size, the call returns Skipped, no GET is
\* issued and the file system is, at every moment of the call, as it was found.
C1_ProbeMatchSkips ==
    (InCall /\ Found.exists /\ Len(Found.data) > 0 /\ ProbeReported(Len(Found.data)))
        => /\ Returned
           /\ Outcome(result) = "Skipped"
           /\ n_get = 0
           /\ get_resp = NoResp
           /\ fs = pre

C1_Witness ==
    /\ pc = "return"
    /\ Found.exists /\ Len(Found.data) = 2
    /\ ProbeReported(2)
    /\ result = SkippedSameSize

\* C2: when the transfer fails (GET raises, answers a status other than 200
\* or answers an empty body), the call returns Failed and every local
\* artifact is what it was before the call.
C2_FailedTransferLeavesFile ==
    (InCall /\ TransferFailed)
        => /\ Returned
           /\ Outcome(result) = "Failed"
           /\ fs = pre

C2_Witness ==
    /\ pc = "return"
    /\ Found.exists /\ Len(Found.data) > 0
    /\ get_resp = Response(200, Header(Digits(0)), <<>>)
    /\ result = NoDataMsg

\* C3: a reader of the local path sees, in every state, the complete content
\* the call found there (or its absence) or the complete body transferred.
C3_NeverPartial ==
    InCall => \/ Now = Found
              \/ TransferSucceeded /\ Now = File(get_resp.content)

\* C4 as claimed: when no local artifact exists the call issues no HEAD and
\* exactly one GET, and when GET delivers a body the call returns Downloaded
\* and the file is as long as the body.
C4_OriginalClaim ==
    (pc = "return" /\ ~Found.exists)
        => /\ n_head = 0
           /\ n_get = 1
           /\ TransferSucceeded
                => /\ result = DownloadedMsg
                   /\ Now.exists
                   /\ Len(Now.data) = Len(get_resp.content)

\* C4 as amended: when no local artifact exists the call issues no HEAD and
\* exactly one GET; when GET delivers a body and neither open nor write
\* raises, the call returns Downloaded and the file is as long as the body;
\* when open or write raises, the call returns Failed.
C4_NoLocalOneTransfer ==
    (InCall /\ ~Found.exists)
        => /\ n_head = 0
           /\ head_resp = NoResp
           /\ n_get <= 1
           /\ pc = "return"
                => /\ n_get = 1
                   /\ (TransferSucceeded /\ ~io_error)
                        => /\ result = DownloadedMsg
                           /\ Now.exists
                           /\ Len(Now.data) = Len(get_resp.content)
                   /\ (TransferSucceeded /\ io_error) => Outcome(result) = "Failed"

C4_Witness ==
    /\ pc = "return"
    /\ ~Found.exists
    /\ n_get = 1
    /\ Len(get_resp.content) = 2
    /\ result = DownloadedMsg
    /\ Now = File(get_resp.content)

\* The call in progress follows a completed call for the same unit that
\* returned Downloaded or Skipped (the remote archive never changes in Spec).
SecondCall ==
    /\ pc = "return"
    /\ last.unit = unit
    /\ Outcome(last.result) \in {"Downloaded", "Skipped"}

\* C9 as claimed: such a second call returns Skipped and leaves the local
\* artifact as the first call left it.
C9_OriginalClaim ==
    SecondCall => /\ Outcome(result) = "Skipped"
                  /\ Now = last.fs[ThePath]

\* C9 as amended: such a second call leaves the local artifact as the first
\* call left it, and returns Skipped unless its own transfer fails, in which
\* case it returns Failed.
C9_Idempotent ==
    SecondCall => /\ fs = last.fs
                  /\ \/ Outcome(result) = "Skipped"
                     \/ TransferFailed /\ Outcome(result) = "Failed"

\* a second call without a usable probe, after a first call that skipped a
\* file of the body's length and other bytes
C9_Witness ==
    /\ SecondCall
    /\ head_resp.kind = "raised"
    /\ result = SkippedAfterGet
    /\ last.result = SkippedAfterGet
    /\ Now # File(get_resp.content)

----------------------------------------------------------------------------
(* Claims about download_dukascopy_ticks, checked under SchedSpec and, for   *)
(* what must eventually happen, SchedFairSpec.                               *)

\* the days of [start_date, end_date]
DayCount == Ordinal(end_date) - Ordinal(start_date) + 1

\* a valid calendar date
IsDate(y, m, d) == y \in 1..9999 /\ m \in 1..12 /\ d \in 1..DaysInMonth(y, m)

\* task a comes before task b: by date, then by hour
TaskBefore(a, b) ==
    \/ Ordinal(<<a[1], a[2], a[3]>>) < Ordinal(<<b[1], b[2], b[3]>>)
    \/ <<a[1], a[2], a[3]>> = <<b[1], b[2], b[3]>> /\ a[4] < b[4]

\* tasks holds one unit for each date of the range and each hour, once, dates
\* ascending and hours ascending within a date.
EnumerationComplete ==
    /\ Len(tasks) = HoursPerDay * DayCount
    /\ \A i \in 1..Len(tasks) :
          /\ IsDate(tasks[i][1], tasks[i][2], tasks[i][3])
          /\ Ordinal(start_date) <= Ordinal(<<tasks[i][1], tasks[i][2], tasks[i][3]>>)
          /\ Ordinal(<<tasks[i][1], tasks[i][2], tasks[i][3]>>) <= Ordinal(end_date)
          /\ tasks[i][4] \in 0..(HoursPerDay - 1)
    /\ \A i \in 1..(Len(tasks) - 1) : TaskBefore(tasks[i], tasks[i + 1])
    /\ \A i, j \in 1..Len(tasks) : i # j => tasks[i] # tasks[j]

\* every task of tasks has been submitted once, in the order of tasks
SubmittedOnce ==
    /\ Len(future_to_task) = Len(tasks)
    /\ \A i \in 1..Len(tasks) : future_to_task[i].task = tasks[i]
    /\ \A t \in {tasks[i] : i \in 1..Len(tasks)} :
          Cardinality({i \in FutureIds : future_to_task[i].task = t}) = 1

\* the main thread has left line 87, or the function altogether
PastSubmission == sched_pc \in {"as_completed", "done", "raised"}

\* C5: for start_date <= end_date (and a pool that can be created), once the
\* scheduler is past its submissions it has enumerated HoursPerDay units for
\* each day of the range, without duplicates, date-major and hour-minor
\* ascending, and has submitted each exactly once.
C5_EnumeratesEveryUnit ==
    (DateLE(start_date, end_date) /\ threads > 0 /\ PastSubmission)
        => EnumerationComplete /\ SubmittedOnce

\* The same for the ranges that end before date.max, which is what the code
\* achieves.
EnumerationBelowDateMax ==
    (DateLE(start_date, end_date) /\ end_date # DateMax /\ threads > 0 /\ PastSubmission)
        => /\ EnumerationComplete
           /\ SubmittedOnce
           /\ sched_pc # "raised"

EnumerationBelowDateMax_Witness ==
    /\ sched_pc = "done"
    /\ start_date = <<2024, 2, 28>>
    /\ end_date = <<2024, 2, 29>>
    /\ Len(tasks) = HoursPerDay * 2
    /\ tasks[Len(tasks)] = <<2024, 2, 29, HoursPerDay - 1>>

\* C6: at most threads calls of download_one_hour are running at any moment.
C6_BoundedConcurrency == Cardinality(Running) <= threads

\* the pool is full and work is waiting
C6_Witness ==
    /\ threads = 2
    /\ Cardinality(Running) = 2
    /\ queue # <<>>

MaxUnits == HoursPerDay * MaxDays

\* the run has ended
Terminated == sched_pc \in {"done", "raised"}

----------------------------------------------------------------------------
(* Claims about bi5_to_csv, checked under ConvSpec.                          *)

\* the rows of the output after the header
DataRows == IF csv.exists /\ Len(csv.data) > 0 THEN Tail(csv.data) ELSE <<>>

\* C10: a decompressed buffer of length L yields exactly floor(L / 20) rows;
\* a trailing chunk shorter than 20 bytes adds no row and stops the loop
\* without an error.
C10_RowsPerCompleteChunk ==
    (conv_pc = "done" /\ bi5.valid)
        => /\ Len(DataRows) = Len(bi5.payload) \div 20
           /\ decompressed_data = bi5.payload
           /\ printed = "Converted"

\* a buffer of 20 * 2 + 7 bytes has given two rows
C10_Witness ==
    /\ conv_pc = "done"
    /\ bi5.valid
    /\ Len(decompressed_data) = 47
    /\ Len(DataRows) = 2

\* the sequences of records ConvSpec encodes
RecordSeqs == SeqsUpTo(SampleRecords, MaxRecords)

\* dt plus the unsigned 32-bit number of milliseconds whose big-endian bytes
\* are b, added in three parts that each fit a signed 32-bit integer
PlusUnsignedMs(dt, b) ==
    LET half == (b[1] \div 2) * 16777216
        rest == (b[1] % 2) * 16777216 + b[2] * 65536 + b[3] * 256 + b[4]
    IN  PlusMilliseconds(PlusMilliseconds(PlusMilliseconds(dt, half), half), rest)

\* the row the record r stands for at the hour anchor a: the anchor plus
\* offset_ms, the raw prices over 100000, the volumes as encoded
ExpectedRow(a, r) ==
    [timestamp |-> PlusUnsignedMs(BaseDatetime(a), r[1]),
     ask |-> [num |-> r[2], den |-> 100000],
     bid |-> [num |-> r[3], den |-> 100000],
     ask_volume |-> r[4],
     bid_volume |-> r[5]]

ExpectedRows(a, rs) == [i \in 1..Len(rs) |-> ExpectedRow(a, rs[i])]

\* the offset of record r is below 2^31
OffsetBelow2p31(r) == r[1][1] < 128

\* C11: when the artifact is the encoding of the records rs, the conversion
\* leaves exactly one row per record, in the order of rs, row i carrying the
\* anchor plus offset_ms of record i, its raw prices over 100000 and its
\* volumes.
C11_RoundTrip ==
    \A rs \in RecordSeqs :
        (conv_pc = "done" /\ bi5.valid /\ bi5.payload = PackRecords(rs))
            => DataRows = ExpectedRows(anchor, rs)

\* The same for the records whose offset is below 2^31, which is what the
\* code achieves.
RoundTripBelow2p31 ==
    \A rs \in RecordSeqs :
        (/\ conv_pc = "done" /\ bi5.valid /\ bi5.payload = PackRecords(rs)
         /\ \A i \in 1..Len(rs) : OffsetBelow2p31(rs[i]))
            => DataRows = ExpectedRows(anchor, rs)

\* two records, the later offset first, converted at hour 5 into two rows in
\* the order of the records: 05:59:59.999 and then 05:00:01.500
RoundTripBelow2p31_Witness ==
    /\ conv_pc = "done"
    /\ bi5.valid
    /\ anchor.hour = 5
    /\ bi5.payload = PackRecords(<<(<<PackInt32(3599999), -1, 0, -7, 2147483647>>),
                                   (<<PackInt32(1500), 109234, 109210, 3, 5>>)>>)
    /\ Len(DataRows) = 2
    /\ DataRows[1].timestamp = [day |-> Ordinal(<<2024, 11, 3>>), ms |-> 21599999]
    /\ DataRows[2].timestamp = [day |-> Ordinal(<<2024, 11, 3>>), ms |-> 18001500]
    /\ DataRows[2].ask = [num |-> 109234, den |-> 100000]
    /\ DataRows[2].bid_volume = 5

\* the call of bi5_to_csv has got past lzma.decompress
PastDecompress == conv_pc \notin {"idle", "start"}

\* C12: when lzma cannot decompress the artifact, the call ends by raising an
\* error to its caller, and no row has been produced.
C12_DecompressionErrorRaised ==
    (PastDecompress /\ ~bi5.valid)
        => /\ conv_pc = "raised"
           /\ pos = 0
           /\ decompressed_data = <<>>

\* What the code does instead: the call prints "Error decompressing" and
\* returns to its caller as a call that succeeded does, having read no record.
DecompressionErrorPrinted ==
    (PastDecompress /\ ~bi5.valid)
        => /\ conv_pc = "done"
           /\ printed = "Error decompressing"
           /\ pos = 0
           /\ decompressed_data = <<>>

DecompressionErrorPrinted_Witness ==
    /\ conv_pc = "done"
    /\ ~bi5.valid
    /\ Len(bi5.payload) = 40
    /\ printed = "Error decompressing"
    /\ csv = Absent

----------------------------------------------------------------------------
(* Further claims about download_one_hour, checked under Spec.               *)

\* the local artifact found by the call is as long as the body GET delivered
FoundSameLength == Found.exists /\ Len(Found.data) = Len(get_resp.content)

\* C13: when GET delivers a body and the local artifact exists with the
\* body's length, the call returns Skipped and the file system stays as
\* found, whatever the bytes of the artifact; and the artifact is changed
\* only after a transfer whose body's length differs from the artifact's size
\* (or when there was no artifact).
C13_OverwriteOnlyOnSizeChange ==
    InCall =>
        /\ (TransferSucceeded /\ FoundSameLength)
              => /\ fs = pre
                 /\ pc \in {"compare", "return", "idle"}
                 /\ pc # "compare" => result = SkippedAfterGet
        /\ Now # Found => (TransferSucceeded /\ ~FoundSameLength)

\* the body is as long as the local artifact and differs from it; the call is
\* about to return Skipped with the artifact as found
C13_Witness ==
    /\ pc = "return"
    /\ TransferSucceeded
    /\ Found.exists
    /\ Len(Found.data) = 2
    /\ Len(get_resp.content) = 2
    /\ Found.data # get_resp.content
    /\ result = SkippedAfterGet
    /\ Now = Found

\* GET delivered a body and the local artifact was absent or of another size
TransferToWrite == TransferSucceeded /\ ~FoundSameLength

\* C14 as claimed: when GET delivers a body and the local artifact is absent
\* or of another size, the call returns Downloaded and the artifact is
\* exactly the body; and the call returns Downloaded in no other case.
C14_OriginalClaim ==
    pc = "return" =>
        /\ TransferToWrite => (result = DownloadedMsg /\ Now = File(get_resp.content))
        /\ result = DownloadedMsg => TransferToWrite

\* C14 as amended: in that case, when neither opening nor writing the file
\* raises, the call returns Downloaded and the artifact is exactly the body,
\* none of its earlier bytes remaining; when opening or writing raises, the
\* call returns Failed; and the call returns Downloaded in no other case.
C14_DownloadedExactlyWhenWritten ==
    pc = "return" =>
        /\ (TransferToWrite /\ ~io_error)
              => (result = DownloadedMsg /\ Now = File(get_resp.content))
        /\ (TransferToWrite /\ io_error) => Outcome(result) = "Failed"
        /\ result = DownloadedMsg
              => (TransferToWrite /\ ~io_error /\ Now = File(get_resp.content))

\* a body of one byte has replaced an artifact of two bytes
C14_Witness ==
    /\ pc = "return"
    /\ Found.exists
    /\ Len(Found.data) = 2
    /\ Len(get_resp.content) = 1
    /\ result = DownloadedMsg
    /\ Now = File(get_resp.content)

\* HEAD was issued and failed: it raised (connection failure, timeout),
\* answered another status than 200, or answered a Content-Length that is
\* not a number
ProbeFailed ==
    \/ head_resp.kind = "raised"
    \/ head_resp.kind = "response" /\ head_resp.status # 200
    \/ /\ head_resp.kind = "response"
       /\ head_resp.status = 200
       /\ head_resp.content_length.present
       /\ ~ParseInt(head_resp.content_length.value).ok

\* HEAD answered 200 without a Content-Length
ProbeNoSize ==
    /\ head_resp.kind = "response"
    /\ head_resp.status = 200
    /\ ~head_resp.content_length.present

\* HEAD answered 200 with a size other than the local artifact's
ProbeSizeDiffers ==
    /\ head_resp.kind = "response"
    /\ head_resp.status = 200
    /\ head_resp.content_length.present
    /\ ParseInt(head_resp.content_length.value).ok
    /\ ParseInt(head_resp.content_length.value).value # Len(Found.data)

\* the cases in which the call has to transfer
NeedsTransfer ==
    \/ ~Found.exists
    \/ Len(Found.data) = 0
    \/ ProbeFailed
    \/ ProbeNoSize
    \/ ProbeSizeDiffers

\* C15: in each of those cases the call does not return on the probe: by the
\* time it returns it has issued its GET, and what it returns is the outcome
\* of that transfer; a result of Failed comes from the GET or from writing the
\* file, never from the probe.
C15_ProbeFailureFallsThrough ==
    (InCall /\ NeedsTransfer)
        => /\ result # SkippedSameSize
           /\ Returned
                => /\ n_get = 1
                   /\ get_resp.kind # "none"
                   /\ result \in {SkippedAfterGet, DownloadedMsg, NoDataMsg, ErrorMsg}
                   /\ result = ErrorMsg => (get_resp.kind = "raised" \/ io_error)
                   /\ result = NoDataMsg => ~TransferSucceeded

\* the probe raised, and the call went on to download the artifact
C15_Witness ==
    /\ pc = "return"
    /\ Found.exists
    /\ Len(Found.data) > 0
    /\ head_resp.kind = "raised"
    /\ n_get = 1
    /\ result = DownloadedMsg

\* C16: one call of download_one_hour issues at most one HEAD and at most one
\* GET, whatever the answers, and issues HEAD only for a local artifact that
\* exists and is not empty.
C16_NoRetries ==
    InCall => /\ n_head <= 1
              /\ n_get <= 1
              /\ n_head = 1 => (Found.exists /\ Len(Found.data) > 0)
              /\ (n_head = 0) = (head_resp = NoResp)
              /\ (n_get = 0) = (get_resp = NoResp)

\* both requests raised, and the call returns after one of each
C16_Witness ==
    /\ pc = "return"
    /\ n_head = 1
    /\ head_resp.kind = "raised"
    /\ n_get = 1
    /\ get_resp.kind = "raised"
    /\ result = ErrorMsg

\* the local paths other than the call's own
OtherPaths == SyncPaths \ {ThePath}

\* C19: at every moment of a call, and after it, the artifact at every path
\* other than the call's own is what it was when the call began, whatever
\* the call does to its own artifact and whatever it returns.
C19_OnlyOwnPath ==
    InCall => \A p \in OtherPaths : fs[p] = pre[p]

\* the call has replaced its own artifact; the other unit's artifact, which
\* exists, is as it was
C19_Witness ==
    /\ pc = "return"
    /\ result = DownloadedMsg
    /\ Found.exists
    /\ Now # Found
    /\ \E p \in OtherPaths : fs[p].exists /\ Len(fs[p].data) = 2 /\ fs[p] = pre[p]

----------------------------------------------------------------------------
(* Further claims about download_dukascopy_ticks, checked under SchedSpec.   *)

\* the local path of the call that future i stands for
PathOf(i) == Filepath(future_to_task[i].task)

\* C17: the units enumerated by one run have pairwise distinct local paths,
\* so no two calls of download_one_hour submitted by the run, and in
\* particular no two that are running at the same moment, use the same path.
C17_DistinctPaths ==
    /\ \A i, j \in 1..Len(tasks) :
          i # j => /\ tasks[i] # tasks[j]
                   /\ Filepath(tasks[i]) # Filepath(tasks[j])
    /\ \A i, j \in FutureIds : i # j => PathOf(i) # PathOf(j)
    /\ \A i, j \in Running : i # j => PathOf(i) # PathOf(j)

\* two calls are running together, for the last hour of a day and the first
\* of the next
C17_Witness ==
    /\ Running = {HoursPerDay, HoursPerDay + 1}
    /\ future_to_task[HoursPerDay].task = <<2024, 2, 28, HoursPerDay - 1>>
    /\ future_to_task[HoursPerDay + 1].task = <<2024, 2, 29, 0>>
    /\ PathOf(HoursPerDay) # PathOf(HoursPerDay + 1)

----------------------------------------------------------------------------
(* Further claims about bi5_to_csv, checked under ConvSpec.                  *)

\* the conversion has opened its output and is writing or has written rows
Converting == bi5.valid /\ conv_pc \in {"loop", "close", "done"}

\* the four bytes of the first field of the k-th record of the buffer
OffsetBytes(k) == SubSeq(decompressed_data, record_size * (k - 1) + 1,
                         record_size * (k - 1) + 4)

\* datetime a is not earlier than datetime b
NotEarlier(a, b) == a.day > b.day \/ (a.day = b.day /\ a.ms >= b.ms)

\* C18: the timestamp of every row is the anchor plus the first field of its
\* record read as an unsigned 32-bit big-endian number of milliseconds, and
\* so is never earlier than the anchor.
C18_UnsignedOffset ==
    Converting =>
        \A k \in 1..Len(DataRows) :
            /\ DataRows[k].timestamp = PlusUnsignedMs(BaseDatetime(anchor), OffsetBytes(k))
            /\ NotEarlier(DataRows[k].timestamp, BaseDatetime(anchor))

\* What the code does: the field is read as a signed number, so the claim
\* holds for the records whose first byte is below 128 and the others get a
\* timestamp before the anchor.
SignedOffset ==
    Converting =>
        \A k \in 1..Len(DataRows) :
            IF OffsetBytes(k)[1] < 128
            THEN /\ DataRows[k].timestamp
                        = PlusUnsignedMs(BaseDatetime(anchor), OffsetBytes(k))
                 /\ NotEarlier(DataRows[k].timestamp, BaseDatetime(anchor))
            ELSE ~NotEarlier(DataRows[k].timestamp, BaseDatetime(anchor))

\* the record with offset bytes 80 00 00 00, converted at 2024-11-03 00:00,
\* has the timestamp 2024-10-09 03:28:36.352
SignedOffset_Witness ==
    /\ conv_pc = "done"
    /\ bi5.valid
    /\ anchor.hour = 0
    /\ Len(DataRows) = 1
    /\ OffsetBytes(1) = <<128, 0, 0, 0>>
    /\ DataRows[1].timestamp = [day |-> Ordinal(<<2024, 10, 9>>), ms |-> 12516352]

\* C20: a conversion whose artifact cannot be decompressed never changes the
\* output file - it neither creates it, nor truncates it, nor writes a header;
\* and a conversion whose artifact decompresses to less than one complete
\* record ends with an output that holds the header row and nothing else.
C20_OutputUntouchedOnFailure ==
    /\ [][~bi5.valid => csv' = csv]_vars
    /\ [](conv_pc = "done" /\ bi5.valid /\ Len(bi5.payload) < record_size
            => csv = File(<<HeaderRow>>))

\* the failed conversion has returned and the rows of an earlier conversion
\* are still in the output
C20_Witness ==
    /\ conv_pc = "done"
    /\ ~bi5.valid
    /\ printed = "Error decompressing"
    /\ csv = File(<<HeaderRow, StaleRow>>)

====
